---- MODULE Spec2Model ----
(***************************************************************************)
(* Model of podcastfy-app/app.py: the process_inputs request handler, its  *)
(* input normalisation (API keys, is_mock, voices, uploaded files), the    *)
(* calls into generate_podcast, and the two Slack routines                 *)
(* send_files_to_slack / send_text_to_slack and the callback POST.         *)
(*                                                                         *)
(* Python str values whose characters matter (is_mock, voices) are         *)
(* sequences of one-character strings.  Everything outside the file (the   *)
(* generation library, Slack, the callback server, the uploaded objects)   *)
(* is a nondeterministic choice over the outcomes the code distinguishes.  *)
(***************************************************************************)
EXTENDS Integers, Sequences, FiniteSets, TLC

\* ------------------------------------------------------------------ bounds

\* longest voices string enumerated by SpecVoices
MaxVoiceLen == 5
\* most uploaded files of one kind (PDF or image) in one request
MaxFiles == 2

\* ------------------------------------------------------- program constants

DATA_DIR == "/var/www/html/data/"
TRANSCRIPT_DIR == "/var/www/html/data/transcripts/"
AUDIO_DIR == "/var/www/html/data/audio/"
DATA_URL == "https://podcastify-files.ifork.eu/"
\* the directory send_files_to_slack writes input_params_{file_group}.json to
CWD_DATA == "<cwd>/data/"
\* longform=word_count > 5000
LongformThreshold == 5000

\* ---------------------------------------------------------- Python values

\* None, and os.getenv of an unset variable
None == "<None>"
\* a local name of process_inputs that no statement has assigned yet
Path(d, n) == [t |-> "path", dir |-> d, name |-> n]
Str(s) == [t |-> "str", s |-> s]
NoneV == [t |-> "None"]
\* process_inputs has not returned
NoReturn == [t |-> "<no return>"]

\* Python truthiness of a str-or-None held as a TLA+ string
Truthy(v) == v # None /\ v # ""

\* ------------------------------------------------------------ str methods

UpperS == <<"A","B","C","D","E","F","G","H","I","J","K","L","M",
            "N","O","P","Q","R","S","T","U","V","W","X","Y","Z">>
LowerS == <<"a","b","c","d","e","f","g","h","i","j","k","l","m",
            "n","o","p","q","r","s","t","u","v","w","x","y","z">>

LowerChar(c) ==
    IF \E i \in 1..Len(UpperS) : UpperS[i] = c
    THEN LowerS[CHOOSE i \in 1..Len(UpperS) : UpperS[i] = c]
    ELSE c

\* str.lower()
Lower(s) == [i \in 1..Len(s) |-> LowerChar(s[i])]

\* the characters str.strip() removes, among those the model draws
Whitespace == {" ", "\t"}

\* str.strip()
RECURSIVE LStrip(_)
LStrip(s) ==
    IF s # <<>> /\ Head(s) \in Whitespace THEN LStrip(Tail(s)) ELSE s

RECURSIVE RStrip(_)
RStrip(s) ==
    IF s # <<>> /\ s[Len(s)] \in Whitespace
    THEN RStrip(SubSeq(s, 1, Len(s) - 1))
    ELSE s

Strip(s) == RStrip(LStrip(s))

\* str.replace(" ", "")
RECURSIVE RemoveSpaces(_)
RemoveSpaces(s) ==
    IF s = <<>> THEN <<>>
    ELSE IF Head(s) = " " THEN RemoveSpaces(Tail(s))
    ELSE <<Head(s)>> \o RemoveSpaces(Tail(s))

\* str.split(','): the list of the pieces between commas, never empty
RECURSIVE SplitFrom(_, _)
SplitFrom(s, cur) ==
    IF s = <<>> THEN <<cur>>
    ELSE IF Head(s) = "," THEN <<cur>> \o SplitFrom(Tail(s), <<>>)
    ELSE SplitFrom(Tail(s), Append(cur, Head(s)))

Split(s) == SplitFrom(s, <<>>)

\* all sequences over S of length at most n
RECURSIVE SeqsUpTo(_, _)
SeqsUpTo(S, n) ==
    IF n = 0 THEN {<<>>}
    ELSE LET shorter == SeqsUpTo(S, n - 1)
         IN  shorter \cup {Append(s, c) : s \in shorter, c \in S}

\* a Python value given for a str parameter: a str, None or a bool
PyStr(s) == [t |-> "str", s |-> s, b |-> FALSE]
PyNone == [t |-> "None", s |-> <<>>, b |-> FALSE]
PyBool(b) == [t |-> "bool", s |-> <<>>, b |-> b]

\* `not v` for such a value
Falsy(v) ==
    \/ v.t = "None"
    \/ v.t = "str" /\ v.s = <<>>
    \/ v.t = "bool" /\ ~v.b

\* --------------------------------------------------------- is_mock parser

L_promptonly == <<"p","r","o","m","p","t","o","n","l","y">>
L_transcript2voice ==
    <<"t","r","a","n","s","c","r","i","p","t","2","v","o","i","c","e">>
L_false == <<"f","a","l","s","e">>
L_no == <<"n","o">>
L_0 == <<"0">>
L_true == <<"t","r","u","e">>
L_yes == <<"y","e","s">>
L_1 == <<"1">>

MockModes == {"No", "Yes", "Transcript", "Transcript2Voice", "PromptOnly"}

\* the parser with its final else dropped: an unmatched value stays as given
ParseIsMock_NoElse(v) ==
    LET w == IF Falsy(v) THEN PyStr(<<"N","o">>) ELSE v
        isStr == w.t = "str"
        l == IF isStr THEN Lower(w.s) ELSE <<>>
    IN  IF isStr /\ l = L_promptonly THEN "PromptOnly"
        ELSE IF isStr /\ l = L_transcript2voice THEN "Transcript2Voice"
        ELSE IF isStr /\ (l = L_false \/ l = L_no \/ l = L_0) THEN "No"
        ELSE IF isStr /\ (l = L_true \/ l = L_yes \/ l = L_1) THEN "Yes"
        ELSE "<as given>"

\* the parser comparing the value as given, without lower()
ParseIsMock_CaseSensitive(v) ==
    LET w == IF Falsy(v) THEN PyStr(<<"N","o">>) ELSE v
        isStr == w.t = "str"
        l == IF isStr THEN w.s ELSE <<>>
    IN  IF isStr /\ l = L_promptonly THEN "PromptOnly"
        ELSE IF isStr /\ l = L_transcript2voice THEN "Transcript2Voice"
        ELSE IF isStr /\ (l = L_false \/ l = L_no \/ l = L_0) THEN "No"
        ELSE IF isStr /\ (l = L_true \/ l = L_yes \/ l = L_1) THEN "Yes"
        ELSE "Transcript"

\* lines 162-176: the value of is_mock after the parser
ParseIsMock(v) ==
    LET w == IF Falsy(v) THEN PyStr(<<"N","o">>) ELSE v
        isStr == w.t = "str"
        l == IF isStr THEN Lower(w.s) ELSE <<>>
    IN  IF isStr /\ l = L_promptonly THEN "PromptOnly"
        ELSE IF isStr /\ l = L_transcript2voice THEN "Transcript2Voice"
        ELSE IF isStr /\ (l = L_false \/ l = L_no \/ l = L_0) THEN "No"
        ELSE IF isStr /\ (l = L_true \/ l = L_yes \/ l = L_1) THEN "Yes"
        ELSE "Transcript"

\* lines 293-301
MockFlag(m) ==
    IF m = "PromptOnly" THEN "[PROMPT ONLY RUN]"
    ELSE IF m = "Transcript2Voice" THEN "[TRANSCRIPT TO VOICE RUN]"
    ELSE IF m = "No" THEN "[ACTUAL RUN]"
    ELSE IF m = "Transcript" THEN "[TRANSCRIPT ONLY]"
    ELSE "[MOCK RUN]"

\* ----------------------------------------------------------- voices parser

V_default == <<"G","e","o","r","g","e",","," ","D","a","n","i","e","l">>
V_George == <<"G","e","o","r","g","e">>
V_Daniel == <<"D","a","n","i","e","l">>

\* the parser with the two voices of a pair taken in the wrong order
ParseVoices_Swapped(v) ==
    LET s == IF Falsy(v) THEN V_default ELSE v.s
        parts == Split(s)
        q == IF Len(parts) = 2 THEN Strip(parts[2])
             ELSE IF Len(parts) = 1 THEN Strip(parts[1])
             ELSE V_George
        a == IF Len(parts) = 2 THEN Strip(parts[1])
             ELSE IF Len(parts) = 1 THEN Strip(parts[1])
             ELSE V_Daniel
    IN  [voices |-> parts,
         question_voice |-> RemoveSpaces(q),
         answer_voice |-> RemoveSpaces(a)]

\* lines 178-195: voices after the split, and the two resolved voices
ParseVoices(v) ==
    LET s == IF Falsy(v) THEN V_default ELSE v.s
        parts == Split(s)
        q == IF Len(parts) = 2 THEN Strip(parts[1])
             ELSE IF Len(parts) = 1 THEN Strip(parts[1])
             ELSE V_George
        a == IF Len(parts) = 2 THEN Strip(parts[2])
             ELSE IF Len(parts) = 1 THEN Strip(parts[1])
             ELSE V_Daniel
    IN  [voices |-> parts,
         question_voice |-> RemoveSpaces(q),
         answer_voice |-> RemoveSpaces(a)]

\* ----------------------------------------------------------------- API keys

\* lines 28-29, with os.getenv(key_name) already read
get_api_key(env_value, ui_value) ==
    IF Truthy(ui_value) THEN ui_value ELSE env_value

\* lines 144 and 150: `not ui_key and not os.getenv(NAME)`
KeyMissing(env_value, ui_value) == ~Truthy(ui_value) /\ ~Truthy(env_value)

\* the key handling writing every provider's key, whatever tts_model selects
ApplyKeys_AllProviders(e, tts, gemini_key, openai_key, elevenlabs_key) ==
    LET g == get_api_key(e.GEMINI_API_KEY, gemini_key)
    IN  IF g = None
        THEN [env |-> e, at |-> "gemini_key", msg |-> "str expected, not NoneType"]
        ELSE [env |-> [GEMINI_API_KEY |-> g,
                       OPENAI_API_KEY |->
                           get_api_key(e.OPENAI_API_KEY, openai_key),
                       ELEVENLABS_API_KEY |->
                           get_api_key(e.ELEVENLABS_API_KEY, elevenlabs_key)],
              at |-> "none", msg |-> ""]

\* lines 138-152 on the environment e: the environment they leave, and the
\* exception if one of them raised
ApplyKeys(e, tts, gemini_key, openai_key, elevenlabs_key) ==
    LET g == get_api_key(e.GEMINI_API_KEY, gemini_key)
        env1 == [e EXCEPT !.GEMINI_API_KEY = g]
        env2 == [env1 EXCEPT !.OPENAI_API_KEY =
                    get_api_key(e.OPENAI_API_KEY, openai_key)]
        env3 == [env1 EXCEPT !.ELEVENLABS_API_KEY =
                    get_api_key(e.ELEVENLABS_API_KEY, elevenlabs_key)]
    IN  IF g = None
        THEN [env |-> e, at |-> "gemini_key", msg |-> "str expected, not NoneType"]
        ELSE IF tts = "openai"
        THEN IF KeyMissing(e.OPENAI_API_KEY, openai_key)
             THEN [env |-> env1, at |-> "openai_key",
                   msg |-> "OpenAI API key is required when using OpenAI TTS model"]
             ELSE [env |-> env2, at |-> "none", msg |-> ""]
        ELSE IF tts = "elevenlabs"
        THEN IF KeyMissing(e.ELEVENLABS_API_KEY, elevenlabs_key)
             THEN [env |-> env1, at |-> "elevenlabs_key",
                   msg |-> "ElevenLabs API key is required when using ElevenLabs TTS model"]
             ELSE [env |-> env3, at |-> "none", msg |-> ""]
        ELSE [env |-> env1, at |-> "none", msg |-> ""]

\* ------------------------------------------------------------ uploaded files

\* What an uploaded object is to the two things the handler does with it:
\* "bytes" (what the binary file widgets of lines 804-815 hand over; a tuple
\* holding bytes behaves the same) can be written to a file opened 'wb' and
\* is refused by json.dumps; "text" (a str) is the other way round.
FileKinds == {"bytes", "text"}
JsonSerializable(kind) == kind = "text"
BinaryWritable(kind) == kind = "bytes"

\* a files parameter: None, or a list of uploaded objects
NoFiles == [none |-> TRUE, items |-> <<>>]
Files(items) == [none |-> FALSE, items |-> items]
FileInputs == {NoFiles} \cup {Files(s) : s \in SeqsUpTo(FileKinds, MaxFiles)}

\* lines 113-136: json.dumps of the parameters succeeds
ParamsSerializable(pdf, img) ==
    /\ \A i \in 1..Len(pdf.items) : JsonSerializable(pdf.items[i])
    /\ \A i \in 1..Len(img.items) : JsonSerializable(img.items[i])

PdfTempDir == Path("<mkdtemp pdf>", "")
ImgTempDir == Path("<mkdtemp img>", "")
TempPath(dir, prefix, i) == Path(dir.dir, prefix \o ToString(i - 1))

\* lines 210-217 and 226-246: the loop body from item i on.  The path joins
\* temp_files before open() creates the file; a write that raises leaves the
\* loop with the file created.
RECURSIVE WriteUploads(_, _, _, _, _, _)
WriteUploads(dir, prefix, items, i, files, disk) ==
    IF i > Len(items) THEN [temp_files |-> files, disk |-> disk, raised |-> FALSE]
    ELSE LET p == TempPath(dir, prefix, i)
         IN  IF BinaryWritable(items[i])
             THEN WriteUploads(dir, prefix, items, i + 1,
                               Append(files, p), disk \cup {p})
             ELSE [temp_files |-> Append(files, p),
                   disk |-> disk \cup {p},
                   raised |-> TRUE]

\* lines 201-246: temp_files, temp_dirs and the disk after the two blocks,
\* or at the point where a write raised
MaterializeUploads(pdf, img, disk) ==
    LET hasPdf == ~pdf.none /\ Len(pdf.items) > 0
        hasImg == ~img.none /\ Len(img.items) > 0
        p == IF hasPdf
             THEN WriteUploads(PdfTempDir, "input_pdf_", pdf.items, 1, <<>>,
                               disk \cup {PdfTempDir})
             ELSE [temp_files |-> <<>>, disk |-> disk, raised |-> FALSE]
        pdirs == IF hasPdf THEN <<PdfTempDir>> ELSE <<>>
        g == IF hasImg /\ ~p.raised
             THEN WriteUploads(ImgTempDir, "input_image_", img.items, 1,
                               p.temp_files, p.disk \cup {ImgTempDir})
             ELSE p
        gdirs == IF hasImg /\ ~p.raised THEN Append(pdirs, ImgTempDir) ELSE pdirs
    IN  [temp_files |-> g.temp_files, temp_dirs |-> gdirs,
         disk |-> g.disk, raised |-> g.raised]

\* lines 424-431 and 535-540: unlink every temp file, rmdir every temp dir
RemoveTemp(files, dirs, disk) ==
    (disk \ {files[i] : i \in 1..Len(files)}) \ {dirs[i] : i \in 1..Len(dirs)}

\* -------------------------------------------------------------------- Slack

Event(op, file) == [op |-> op, file |-> file]

\* What a request of the upload protocol can come to, as the code tells them
\* apart: "not_ok" is an answer the step rejects itself (ok false, or for the
\* byte upload a status other than 200 that urlopen hands back), "net_error"
\* any other exception of urlopen, and the three "http_" kinds an HTTPError
\* whose body is JSON, is text that is not JSON, or cannot be read or decoded.
FailKinds == {"not_ok", "net_error", "http_json", "http_text", "http_unreadable"}
HttpErrorKinds == {"http_json", "http_text", "http_unreadable"}

\* lines 543-586: one chat.postMessage; whatever the outcome, nothing is raised
SendTextOutcomes == {"ok", "not_ok", "exception"}
send_text_to_slack(text, outcome) ==
    [events |-> <<Event("chat.postMessage", text)>>, raised |-> FALSE]

\* the protocol run file by file: the URL of a file, then its bytes
UploadSteps_PerFile(present) ==
    LET n == Len(present)
    IN  [i \in 1..(2 * n + 1) |->
            IF i = 2 * n + 1 THEN Event("files.completeUploadExternal", "*")
            ELSE IF i % 2 = 1
            THEN Event("files.getUploadURLExternal", present[(i + 1) \div 2])
            ELSE Event("upload", present[i \div 2])]

\* lines 610-678: the requests of steps 1 to 3 for the files that exist
UploadSteps(present) ==
    LET n == Len(present)
    IN  [i \in 1..(2 * n + 1) |->
            IF i <= n THEN Event("files.getUploadURLExternal", present[i])
            ELSE IF i <= 2 * n THEN Event("upload", present[i - n])
            ELSE Event("files.completeUploadExternal", "*")]

\* lines 687-704: the two except clauses of send_files_to_slack
UploadHandler(kind) ==
    IF kind \in HttpErrorKinds
    THEN LET first == send_text_to_slack("HTTP Error", "ok").events
         IN  IF kind = "http_json"
             THEN [events |-> first \o send_text_to_slack("Details", "ok").events,
                   raised |-> FALSE]
             ELSE IF kind = "http_text"
             THEN [events |-> first \o
                       send_text_to_slack("Details could not be parsed", "ok").events,
                   raised |-> FALSE]
             ELSE [events |-> first, raised |-> TRUE]
    ELSE [events |-> send_text_to_slack("Exception occurred", "ok").events,
          raised |-> FALSE]

\* one way a call of send_files_to_slack can go: whether the input-parameters
\* file can be written, and which request (0: none) fails in which way
NoScenario == [write |-> TRUE, failAt |-> 0, kind |-> "none"]
SlackScenarios(n) ==
    {[write |-> FALSE, failAt |-> 0, kind |-> "none"], NoScenario}
    \cup {[write |-> TRUE, failAt |-> k, kind |-> f] :
             k \in 1..(2 * n + 1), f \in FailKinds}

\* lines 589-704: the requests sent and the messages posted by one call, in
\* order, and whether an exception leaves the function
send_files_to_slack(present, scen) ==
    LET steps == UploadSteps(present)
        sent == IF scen.failAt = 0 THEN steps ELSE SubSeq(steps, 1, scen.failAt)
        h == IF scen.failAt = 0
             THEN [events |-> <<>>, raised |-> FALSE]
             ELSE UploadHandler(scen.kind)
    IN  IF ~scen.write
        THEN [events |-> <<>>, wrote |-> FALSE, raised |-> TRUE, step |-> "write",
              kind |-> "io_error", completed |-> FALSE, files |-> <<>>]
        ELSE [events |-> sent \o h.events, wrote |-> TRUE, raised |-> h.raised,
              step |-> IF scen.failAt = 0 THEN "none" ELSE steps[scen.failAt].op,
              kind |-> scen.kind, completed |-> scen.failAt = 0,
              files |-> present]

NoUpload ==
    [events |-> <<>>, wrote |-> FALSE, raised |-> FALSE, step |-> "none",
     kind |-> "none", completed |-> FALSE, files |-> <<>>]

\* lines 602-614: the files of the call that exist, in the order of the dict
PresentFiles(audio, transcript, disk) ==
    <<"input">>
    \o (IF audio.t = "path" /\ audio \in disk THEN <<"audio">> ELSE <<>>)
    \o (IF transcript.t = "path" /\ transcript \in disk THEN <<"transcript">> ELSE <<>>)

\* ------------------------------------------------------------------- state

VARIABLES
    pc,              \* where process_inputs is
    env,             \* os.environ: the three provider keys
    pdf_files, image_files, is_mock_arg, voices_arg, request_id,
    tts_model, callback_url,
    podcast_name, podcast_tagline, user_instructions,
    text_input_arg,                   \* parameters, as given
    text_input,      \* the local text_input, reassigned at line 408
    is_mock,         \* is_mock after the parser
    voices, question_voice, answer_voice,
    bound,           \* the local names assigned so far
    requestId, file_group, mock_flag,
    temp_files, temp_dirs,
    disk,            \* the files and directories that exist
    audio_file, transcript_file, prompt_file,
    prompt_content,  \* the dict written to the prompt file as JSON
    payload,         \* the body of the callback POST
    genCalls,        \* the calls of generate_podcast, in order
    branches,        \* the mode branches of lines 316-417 entered
    log,             \* the outward calls of process_inputs itself, in order
    written,         \* the kinds of file the request has written
    upload,          \* the send_files_to_slack call of the step just taken
    failure,         \* the exception the top-level except clause caught
    ret,             \* what process_inputs returned
    reqs,            \* the requests the process handles side by side
    keyOrder,        \* those requests, in the order they ran lines 138-152
    initEnv          \* os.environ when the first of those requests began

vars == <<pc, env, pdf_files, image_files, is_mock_arg, voices_arg, request_id,
          tts_model, callback_url, is_mock, voices, question_voice, answer_voice,
          bound, requestId, file_group, mock_flag, temp_files, temp_dirs, disk,
          audio_file, transcript_file, prompt_file, genCalls, branches, log,
          written, upload, failure, ret,
          podcast_name, podcast_tagline, user_instructions, text_input_arg,
          text_input, prompt_content, payload, reqs, keyOrder, initEnv>>

\* ------------------------------------------------------------------ inputs

UIKeys == {"", "ui-key"}
EnvKeys == {None, "env-key"}
TtsModels == {"openai", "elevenlabs", "edge"}
RequestIds == {"", "req-7"}
\* str(int(time.time())) + "_" + str(random.randint(1000, 9999))
Stamps == {"1700000000_1234"}
WordCounts == {2000, 5000, 5001, 6000}
CallbackUrls == {"", "https://hook.example/cb", "hook.example/cb"}
\* urllib.request.Request accepts the URL: it names a scheme
HasScheme(url) == url = "https://hook.example/cb"

IsMockInputs ==
    {PyNone, PyBool(TRUE),
     PyStr(<<"0">>),
     PyStr(<<"Y","E","S">>),
     PyStr(<<"T","r","a","n","s","c","r","i","p","t","2","V","o","i","c","e">>),
     PyStr(<<"P","r","o","m","p","t","O","n","l","y">>),
     PyStr(<<"m","a","y","b","e">>)}

MainVoices == {PyNone, PyStr(<<"A","n","n",","," ","B","o","b">>)}
PodcastNames == {"Tech Talk"}
PodcastTaglines == {"Ideas in ten minutes"}
UserInstructions == {"Speak like a pirate"}
TextInputs == {"Some text"}
\* prompt_details["input_text"]: the text given, or the one the library made
\* of the URLs and files
LibInputTexts(text) == {text, "<text the library extracted>"}

CannedTranscript ==
    Path(TRANSCRIPT_DIR, "transcript_eb3b9b19d81949f999680679c6e30bb0.txt")
CannedAudio == Path(AUDIO_DIR, "podcast_768bee6fe8884dd3bb606d0556612b13.mp3")

NoPayload == [t |-> "<no payload>"]

\* the requests of one process, and a request not yet submitted
ReqIds == {1, 2}
IdleReq ==
    [pc |-> "idle", tts |-> "", gemini_key |-> "", openai_key |-> "",
     elevenlabs_key |-> "", at |-> "none", after |-> NoneV, stamp |-> "",
     mode |-> "", seen |-> NoneV, seenAt |-> 0, outs |-> {}]

NoFailure == [at |-> "none", msg |-> "", step |-> "none", kind |-> "none"]
Failure(at, msg) == [at |-> at, msg |-> msg, step |-> "none", kind |-> "none"]

\* the local names bound when the try block is entered: the parameters only
BoundAtEntry == {}

\* what a request starts from, whatever the environment holds
Fresh ==
    /\ pdf_files = NoFiles /\ image_files = NoFiles
    /\ callback_url = ""
    /\ podcast_name = "" /\ podcast_tagline = "" /\ user_instructions = ""
    /\ text_input_arg = "" /\ text_input = ""
    /\ prompt_content = NoneV /\ payload = NoPayload
    /\ reqs = [r \in ReqIds |-> IdleReq] /\ keyOrder = <<>>
    /\ is_mock = "<unparsed>"
    /\ voices = <<>> /\ question_voice = <<>> /\ answer_voice = <<>>
    /\ mock_flag = ""
    /\ temp_files = <<>> /\ temp_dirs = <<>>
    /\ disk = {CannedTranscript, CannedAudio}
    /\ audio_file = NoneV /\ transcript_file = NoneV /\ prompt_file = NoneV
    /\ genCalls = <<>> /\ branches = <<>> /\ log = <<>>
    /\ written = {} /\ upload = NoUpload
    /\ failure = NoFailure /\ ret = NoReturn

Init ==
    /\ pc = "idle"
    /\ env \in [GEMINI_API_KEY : EnvKeys, OPENAI_API_KEY : EnvKeys,
                ELEVENLABS_API_KEY : EnvKeys]
    /\ is_mock_arg = PyNone /\ voices_arg = PyNone
    /\ request_id = "" /\ tts_model = ""
    /\ bound = BoundAtEntry
    /\ requestId = "" /\ file_group = ""
    /\ initEnv = NoneV
    /\ Fresh

\* an exception raised inside the try block reaches line 531
Raise(at, msg) ==
    /\ pc' = "except"
    /\ failure' = Failure(at, msg)

\* ----------------------------------------------------------------- actions

params == <<pdf_files, image_files, is_mock_arg, voices_arg, request_id,
            podcast_name, podcast_tagline, user_instructions, text_input_arg>>
parsed == <<is_mock, voices, question_voice, answer_voice>>
idents == <<requestId, file_group>>
temps == <<temp_files, temp_dirs>>
outputs == <<audio_file, transcript_file, prompt_file, prompt_content>>
multi == <<reqs, keyOrder, initEnv>>

\* lines 86-136: the call, and the json.dumps of the parameters for the log
Start ==
    /\ pc = "idle"
    /\ pdf_files' \in FileInputs
    /\ image_files' \in FileInputs
    /\ is_mock_arg' \in IsMockInputs
    /\ voices_arg' \in MainVoices
    /\ request_id' \in RequestIds
    /\ podcast_name' \in PodcastNames
    /\ podcast_tagline' \in PodcastTaglines
    /\ user_instructions' \in UserInstructions
    /\ text_input_arg' \in TextInputs
    /\ text_input' = text_input_arg'
    /\ IF ParamsSerializable(pdf_files', image_files')
       THEN pc' = "keys" /\ UNCHANGED failure
       ELSE Raise("log_params", "Object of type bytes is not JSON serializable")
    /\ UNCHANGED <<multi, payload,
                   env, tts_model, callback_url, parsed, bound, idents, mock_flag,
                   temps, disk, outputs, genCalls, branches, log, written,
                   upload, ret>>

\* lines 138-160: the provider keys go to os.environ, then the Slack settings
\* and the two identifiers are bound
Keys ==
    /\ pc = "keys"
    /\ \E tts \in TtsModels, gemini_key \in UIKeys, openai_key \in UIKeys,
          elevenlabs_key \in UIKeys, stamp \in Stamps :
        LET k == ApplyKeys(env, tts, gemini_key, openai_key, elevenlabs_key)
        IN  /\ tts_model' = tts
            /\ env' = k.env
            /\ IF k.at # "none"
               THEN /\ Raise(k.at, k.msg)
                    /\ UNCHANGED <<bound, idents>>
               ELSE /\ bound' = bound \cup {"SLACK_BOT_TOKEN", "SLACK_CHANNEL_ID",
                                            "requestId", "file_group"}
                    /\ file_group' = stamp
                    /\ requestId' = IF Truthy(request_id) THEN request_id
                                    ELSE stamp
                    /\ pc' = "parse"
                    /\ UNCHANGED failure
    /\ UNCHANGED <<multi, payload, text_input,
                   params, callback_url, parsed, mock_flag, temps, disk, outputs,
                   genCalls, branches, log, written, upload, ret>>

\* lines 162-199: is_mock and voices are normalised
ParseInputs ==
    /\ pc = "parse"
    /\ is_mock' = ParseIsMock(is_mock_arg)
    /\ LET v == ParseVoices(voices_arg)
       IN  /\ voices' = v.voices
           /\ question_voice' = v.question_voice
           /\ answer_voice' = v.answer_voice
    /\ pc' = "files"
    /\ UNCHANGED <<multi, payload, text_input,
                   env, params, tts_model, callback_url, bound, idents, mock_flag,
                   temps, disk, outputs, genCalls, branches, log, written,
                   upload, failure, ret>>

\* lines 201-246: the uploaded PDFs and images are written to temporary files
Materialize ==
    /\ pc = "files"
    /\ LET m == MaterializeUploads(pdf_files, image_files, disk)
       IN  /\ temp_files' = m.temp_files
           /\ temp_dirs' = m.temp_dirs
           /\ disk' = m.disk
           /\ written' = IF m.temp_files = <<>> THEN written
                         ELSE written \cup {"temp_input"}
           /\ IF m.raised
              THEN Raise("write_upload", "a bytes-like object is required, not 'str'")
              ELSE pc' = "begin" /\ UNCHANGED failure
    /\ bound' = bound \cup {"temp_files", "temp_dirs"}
    /\ UNCHANGED <<multi, payload, text_input,
                   env, params, tts_model, callback_url, parsed, idents, mock_flag,
                   outputs, genCalls, branches, log, upload, ret>>

InputParamsFile(stamp) == Path(CWD_DATA, "input_params_" \o stamp \o ".json")

\* what the call of send_files_to_slack at lines 303-310 or 445-455 leaves:
\* the file it wrote, the record of the call, and the exception if one left it
SlackCall(tag, audio, transcript, scen, next) ==
    LET r == send_files_to_slack(PresentFiles(audio, transcript, disk'), scen)
    IN  /\ upload' = r
        /\ log' = Append(log, Event("send_files_to_slack", tag))
        /\ written' = IF r.wrote THEN written \cup {"input_params"} ELSE written
        /\ IF r.raised
           THEN /\ pc' = "except"
                /\ failure' = [at |-> "send_files_to_slack",
                               msg |-> IF r.step = "write"
                                       THEN "No such file or directory"
                                       ELSE "'utf-8' codec can't decode byte",
                               step |-> r.step, kind |-> r.kind]
           ELSE pc' = next /\ UNCHANGED failure

\* lines 248-310: the configuration, the mock flag and the BEGIN notification
Begin ==
    /\ pc = "begin"
    /\ mock_flag' = MockFlag(is_mock)
    /\ bound' = bound \cup {"mock_flag"}
    /\ \E scen \in SlackScenarios(1) :
        /\ disk' = IF scen.write THEN disk \cup {InputParamsFile(file_group)}
                   ELSE disk
        /\ SlackCall("BEGIN", NoneV, NoneV, scen, "generate")
    /\ UNCHANGED <<multi, payload, text_input,
                   env, params, tts_model, callback_url, parsed, idents, temps,
                   outputs, genCalls, branches, ret>>

\* ---------------------------------------------------------------- generation

LibTranscript == Path("<cwd>/data/transcripts/", "transcript_<uuid>.txt")
LibAudio == Path("<cwd>/data/audio/", "podcast_<uuid>.mp3")
PublicTranscript(stamp) == Path(TRANSCRIPT_DIR, "transcript_" \o stamp \o ".txt")
\* the audio moved into the public directory under the library's own name
PublicAudio_Unstamped(stamp) == Path(AUDIO_DIR, "podcast_<uuid>.mp3")
PublicAudio(stamp) == Path(AUDIO_DIR, "podcast_" \o stamp \o ".mp3")
PromptFile(stamp) == Path(TRANSCRIPT_DIR, "prompt_" \o stamp \o ".json")

\* the flag with the threshold itself counted as long
Longform_Inclusive(word_count) == word_count >= LongformThreshold

\* lines 357 and 400
Longform(word_count) == word_count > LongformThreshold

\* one call of generate_podcast: what distinguishes the calls of the handler
GenCall(mode, longform, word_count, tf) ==
    [mode |-> mode, longform |-> longform, word_count |-> word_count,
     transcript_file |-> tf]

GenOutcomes == {"returns", "raises"}

\* os.path.abspath of the audio path the library returned for lines 323-336:
\* under the working directory, which may or may not be /var/www/html
LibAudioPaths == {LibAudio, Path(AUDIO_DIR, "podcast_<uuid>.mp3")}

\* lines 250-284: the entries of conversation_config that the handler reads
ConversationConfig(wc) ==
    [word_count |-> wc, podcast_name |-> podcast_name,
     podcast_tagline |-> podcast_tagline,
     user_instructions |-> user_instructions,
     is_mock |-> is_mock, is_prompt_only |-> (is_mock = "PromptOnly")]

LONGFORM_INSTRUCTIONS == "<LONGFORM_INSTRUCTIONS>"
COMMON_INSTRUCTIONS == "<COMMON_INSTRUCTIONS>"

\* dict.get(k, default), a dict being a function from its keys
DictGet(d, k, default) == IF k \in DOMAIN d THEN d[k] ELSE default
EmptyDict == [k \in {} |-> ""]

\* lines 34-84.  The returned dict; its "instruction" is the f-string of lines
\* 77-83 as the sequence of its pieces.  Line 65 rebinds prompt_params to {}
\* before line 76 reads "user_instructions" from it.
generatePrompt(input_params, name, tagline, input_text, prompt_params) ==
    LET cleared == EmptyDict
        n == IF name # "" THEN name ELSE "Podcastfy"
        t == IF tagline # "" THEN tagline ELSE ""
        ui == <<DictGet(cleared, "user_instructions", ""), LONGFORM_INSTRUCTIONS>>
    IN  [word_count |-> input_params.word_count,
         input_text |-> input_text,
         instruction |->
             <<"Welcome to ", n, " - ", t, COMMON_INSTRUCTIONS>> \o ui]

\* the tests of lines 316, 341, 348 and 392
BranchGuard(i, m) ==
    IF i = 1 THEN m = "Transcript2Voice"
    ELSE IF i = 2 THEN m = "Yes"
    ELSE IF i = 3 THEN m = "Transcript" \/ m = "No"
    ELSE m = "PromptOnly" \/ m = "No"

\* the chain with every elif written as an if: each branch whose test holds
BranchesEntered_IfChain(m) ==
    SelectSeq(<<1, 2, 3, 4>>, LAMBDA i : BranchGuard(i, m))

\* the if/elif chain of lines 316-392: the branch whose test holds first
BranchesEntered(m) ==
    SelectSeq(<<1, 2, 3, 4>>,
              LAMBDA i : BranchGuard(i, m)
                         /\ \A j \in 1..(i - 1) : ~BranchGuard(j, m))


GenEvent(mode) == Event("generate_podcast", mode)

\* lines 316-339: Transcript2Voice
BranchTranscript2Voice(wc, o1) ==
    LET tf == PublicTranscript(file_group)
    IN  /\ transcript_file' = tf
        /\ written' = written \cup {"transcript"}
        /\ genCalls' = <<GenCall("from_transcript", FALSE, wc, tf)>>
        /\ log' = Append(log, GenEvent("from_transcript"))
        /\ prompt_file' = NoneV
        /\ UNCHANGED <<prompt_content, text_input>>
        /\ IF o1 = "raises"
           THEN /\ Raise("generate_podcast", "generation failed")
                /\ audio_file' = NoneV
                /\ disk' = disk \cup {tf}
           ELSE /\ audio_file' \in LibAudioPaths
                /\ disk' = disk \cup {tf, audio_file'}
                /\ pc' = "cleanup"
                /\ UNCHANGED failure

\* lines 341-347: Yes
BranchYes ==
    /\ transcript_file' = CannedTranscript
    /\ audio_file' = CannedAudio
    /\ pc' = "cleanup"
    /\ UNCHANGED <<prompt_file, prompt_content, text_input, genCalls, log,
                   written, disk, failure>>

\* lines 348-391: Transcript, and No with its second call
BranchTranscript(wc, o1, o2) ==
    LET tf == PublicTranscript(file_group)
        c1 == GenCall("transcript_only", Longform(wc), wc, NoneV)
        c2 == GenCall("from_transcript", FALSE, wc, tf)
    IN  /\ transcript_file' = tf
        /\ prompt_file' = NoneV
        /\ UNCHANGED <<written, prompt_content, text_input>>
        /\ IF o1 = "raises"
           THEN /\ Raise("generate_podcast", "generation failed")
                /\ genCalls' = <<c1>>
                /\ log' = Append(log, GenEvent("transcript_only"))
                /\ audio_file' = NoneV
                /\ disk' = disk
           ELSE IF is_mock = "Transcript"
           THEN /\ genCalls' = <<c1>>
                /\ log' = Append(log, GenEvent("transcript_only"))
                /\ audio_file' = NoneV
                /\ disk' = disk \cup {tf}
                /\ pc' = "cleanup"
                /\ UNCHANGED failure
           ELSE /\ genCalls' = <<c1, c2>>
                /\ log' = log \o <<GenEvent("transcript_only"),
                                   GenEvent("from_transcript")>>
                /\ IF o2 = "raises"
                   THEN /\ Raise("generate_podcast", "generation failed")
                        /\ audio_file' = NoneV
                        /\ disk' = disk \cup {tf}
                   ELSE /\ audio_file' = PublicAudio(file_group)
                        /\ disk' = disk \cup {tf, PublicAudio(file_group)}
                        /\ pc' = "cleanup"
                        /\ UNCHANGED failure

\* lines 392-417: PromptOnly; o2 is whether the returned prompt parses
BranchPromptOnly(wc, o1, o2) ==
    /\ genCalls' = <<GenCall("transcript_only", Longform(wc), wc, NoneV)>>
    /\ log' = Append(log, GenEvent("transcript_only"))
    /\ transcript_file' = NoneV
    /\ audio_file' = NoneV
    /\ IF o1 = "raises"
       THEN /\ Raise("generate_podcast", "generation failed")
            /\ UNCHANGED <<prompt_file, prompt_content, text_input, written, disk>>
       ELSE IF o2 = "raises"
       THEN /\ Raise("prompt_json", "Expecting value")
            /\ UNCHANGED <<prompt_file, prompt_content, text_input, written, disk>>
       ELSE /\ \E t \in LibInputTexts(text_input) :
                \E prompt_details \in
                       {[input_text |-> t],
                        [input_text |-> t,
                         user_instructions |-> user_instructions]} :
                    /\ text_input' = prompt_details.input_text
                    /\ prompt_content' =
                           generatePrompt(ConversationConfig(wc), podcast_name,
                                          podcast_tagline, text_input',
                                          prompt_details)
            /\ prompt_file' = PromptFile(file_group)
            /\ written' = written \cup {"prompt"}
            /\ disk' = disk \cup {PromptFile(file_group)}
            /\ pc' = "cleanup"
            /\ UNCHANGED failure

\* no test of the chain holds: lines 312-315 stand
NoBranch ==
    /\ pc' = "cleanup"
    /\ UNCHANGED <<outputs, text_input, genCalls, log, written, disk, failure>>

\* lines 312-420: the mode branch
Generate ==
    /\ pc = "generate"
    /\ branches' = BranchesEntered(is_mock)
    /\ upload' = NoUpload
    /\ \E wc \in WordCounts, o1 \in GenOutcomes, o2 \in GenOutcomes :
        LET b == IF branches' = <<>> THEN 0 ELSE branches'[1]
        IN  CASE b = 1 -> BranchTranscript2Voice(wc, o1)
              [] b = 2 -> BranchYes
              [] b = 3 -> BranchTranscript(wc, o1, o2)
              [] b = 4 -> BranchPromptOnly(wc, o1, o2)
              [] OTHER -> NoBranch
    /\ UNCHANGED <<multi, payload,
                   env, params, tts_model, callback_url, parsed, bound, idents,
                   mock_flag, temps, ret>>


\* lines 422-431: the cleanup of the success path
Cleanup ==
    /\ pc = "cleanup"
    /\ disk' = RemoveTemp(temp_files, temp_dirs, disk)
    /\ pc' = "completed"
    /\ UNCHANGED <<multi, payload, text_input,
                   env, params, tts_model, callback_url, parsed, bound, idents,
                   mock_flag, temps, outputs, genCalls, branches, log, written,
                   upload, failure, ret>>

\* lines 433-455: the COMPLETED notification with the produced files
Completed ==
    /\ pc = "completed"
    /\ \E write \in BOOLEAN :
        /\ disk' = IF write THEN disk \cup {InputParamsFile(file_group)} ELSE disk
        /\ \E scen \in SlackScenarios(
                    Len(PresentFiles(audio_file, transcript_file, disk'))) :
            /\ scen.write = write
            /\ SlackCall("COMPLETED", audio_file, transcript_file, scen, "callback")
    /\ UNCHANGED <<multi, payload, text_input,
                   env, params, tts_model, callback_url, parsed, bound, idents,
                   mock_flag, temps, outputs, genCalls, branches, ret>>

\* str.replace(DATA_DIR, DATA_URL) on a path: the prefix is replaced where the
\* path has it
ToDataUrl(p) ==
    IF p.dir = DATA_DIR THEN Path(DATA_URL, p.name)
    ELSE IF p.dir = TRANSCRIPT_DIR THEN Path(DATA_URL \o "transcripts/", p.name)
    ELSE IF p.dir = AUDIO_DIR THEN Path(DATA_URL \o "audio/", p.name)
    ELSE p

\* lines 433-443
HttpAudioFile == IF audio_file # NoneV THEN ToDataUrl(audio_file) ELSE Str("")
HttpTranscriptFile ==
    IF prompt_file # NoneV THEN ToDataUrl(prompt_file)
    ELSE IF transcript_file # NoneV THEN ToDataUrl(transcript_file)
    ELSE Str("")

\* the str that the parser of lines 162-176 has put in is_mock
ModeChars(m) ==
    CASE m = "No" -> <<"N","o">>
      [] m = "Yes" -> <<"Y","e","s">>
      [] m = "Transcript" -> <<"T","r","a","n","s","c","r","i","p","t">>
      [] m = "Transcript2Voice" ->
            <<"T","r","a","n","s","c","r","i","p","t","2","V","o","i","c","e">>
      [] m = "PromptOnly" -> <<"P","r","o","m","p","t","O","n","l","y">>
      [] OTHER -> <<>>

\* lines 464-497: the payload, built from the locals as they are at line 464
Payload(url) ==
    [result |-> "success",
     request_id |-> requestId,
     audio_file |-> HttpAudioFile,
     transcript_file |-> HttpTranscriptFile,
     is_mock |-> PyStr(ModeChars(is_mock)),
     input_params |->
         [text_input |-> text_input,
          pdf_files |-> pdf_files,
          image_files |-> image_files,
          podcast_name |-> podcast_name,
          podcast_tagline |-> podcast_tagline,
          tts_model |-> tts_model,
          user_instructions |-> user_instructions,
          voices |-> [t |-> "list", items |-> voices],
          is_mock |-> PyStr(ModeChars(is_mock)),
          request_id |-> request_id,
          callback_url |-> url]]

\* lines 457-529: the callback POST when a URL was given, then the return
Callback ==
    /\ pc = "callback"
    /\ upload' = NoUpload
    /\ \E url \in CallbackUrls, outcome \in SendTextOutcomes :
        /\ callback_url' = url
        /\ payload' = IF Truthy(url) THEN Payload(url) ELSE payload
        /\ IF ~Truthy(url)
           THEN /\ ret' = audio_file
                /\ pc' = "done"
                /\ UNCHANGED <<log, failure>>
           ELSE IF ~HasScheme(url)
           THEN /\ Raise("callback_request", "unknown url type")
                /\ UNCHANGED <<log, ret>>
           ELSE /\ log' = Append(log, Event("callback", outcome))
                /\ ret' = audio_file
                /\ pc' = "done"
                /\ UNCHANGED failure
    /\ UNCHANGED <<multi, text_input,
                   env, params, tts_model, parsed, bound, idents, mock_flag, temps,
                   disk, outputs, genCalls, branches, written>>

\* the clause with a message that reads no local of the try block
HandlerReads_None == {}

\* the names the f-string of line 533 and its call read
HandlerReads == {"requestId", "mock_flag", "SLACK_BOT_TOKEN", "SLACK_CHANNEL_ID"}

\* f"[{requestId}][{mock_flag}][ERROR]\t{str(e)}"
ErrorText(id, flag, msg) ==
    "[" \o id \o "][" \o flag \o "][ERROR]\t" \o msg

\* the except clause posting the callback as well, after its ERROR text
Except_WithCallback ==
    /\ pc = "except"
    /\ upload' = NoUpload
    /\ IF HandlerReads \subseteq bound
       THEN \E outcome \in SendTextOutcomes :
            LET t == send_text_to_slack(
                         ErrorText(requestId, mock_flag, failure.msg), outcome)
            IN  /\ log' = log \o <<Event("send_text_to_slack", t.events[1].file),
                                   Event("callback", outcome)>>
                /\ IF t.raised \/ ~({"temp_files", "temp_dirs"} \subseteq bound)
                   THEN /\ pc' = "raised"
                        /\ UNCHANGED <<disk, ret>>
                   ELSE /\ disk' = RemoveTemp(temp_files, temp_dirs, disk)
                        /\ ret' = Str(failure.msg)
                        /\ pc' = "done"
       ELSE /\ pc' = "raised"
            /\ UNCHANGED <<log, disk, ret>>
    /\ UNCHANGED <<multi, payload, text_input,
                   env, params, tts_model, callback_url, parsed, bound, idents,
                   mock_flag, temps, outputs, genCalls, branches, written, failure>>

\* lines 531-541: the except clause.  Reading a local that was never assigned
\* raises UnboundLocalError out of the clause, and out of process_inputs.
Except ==
    /\ pc = "except"
    /\ upload' = NoUpload
    /\ IF HandlerReads \subseteq bound
       THEN \E outcome \in SendTextOutcomes :
            LET t == send_text_to_slack(
                         ErrorText(requestId, mock_flag, failure.msg), outcome)
            IN  /\ log' = Append(log, Event("send_text_to_slack", t.events[1].file))
                /\ IF t.raised \/ ~({"temp_files", "temp_dirs"} \subseteq bound)
                   THEN /\ pc' = "raised"
                        /\ UNCHANGED <<disk, ret>>
                   ELSE /\ disk' = RemoveTemp(temp_files, temp_dirs, disk)
                        /\ ret' = Str(failure.msg)
                        /\ pc' = "done"
       ELSE /\ pc' = "raised"
            /\ UNCHANGED <<log, disk, ret>>
    /\ UNCHANGED <<multi, payload, text_input,
                   env, params, tts_model, callback_url, parsed, bound, idents,
                   mock_flag, temps, outputs, genCalls, branches, written, failure>>

Next ==
    \/ Start
    \/ Keys
    \/ ParseInputs
    \/ Materialize
    \/ Begin
    \/ Generate
    \/ Cleanup
    \/ Completed
    \/ Callback
    \/ Except

Spec == Init /\ [][Next]_vars

\* ------------------------------------------- requests in the same process
\*
\* process_inputs is the handler of every request of the process.  What one
\* call shares with another is os.environ (lines 140-152) and the public
\* directories (lines 319, 366, 389, 413); a request r is followed through the
\* two places where it touches them.

\* every variable of one call, which the others do not touch
single == <<pc, params, tts_model, callback_url, parsed, bound, idents,
            mock_flag, temps, disk, outputs, text_input, payload, genCalls,
            branches, log, written, upload, failure, ret>>

\* the UI key request r types in, when it types one
KeyOf(r) == "ui-key-" \o ToString(r)
KeysOf(r) == {"", KeyOf(r)}

\* two requests of the same second may draw the same four digits
MultiStamps == {"1700000000_1234", "1700000000_5678"}

MultiEnvs ==
    {[GEMINI_API_KEY |-> None, OPENAI_API_KEY |-> None,
      ELEVENLABS_API_KEY |-> None],
     [GEMINI_API_KEY |-> "env-key", OPENAI_API_KEY |-> "env-key",
      ELEVENLABS_API_KEY |-> "env-key"]}

\* the environment under which only r's own keys count
LibraryEnv_OwnKeys(r) ==
    ApplyKeys(initEnv, reqs[r].tts, reqs[r].gemini_key, reqs[r].openai_key,
              reqs[r].elevenlabs_key).env

\* the environment the library reads during a call made by request r:
\* os.environ of the process
LibraryEnv(r) == env

\* lines 138-160 of request r
RKeys(r) ==
    /\ reqs[r].pc = "idle"
    /\ \E tts \in TtsModels, gemini_key \in KeysOf(r), openai_key \in KeysOf(r),
          elevenlabs_key \in KeysOf(r), stamp \in MultiStamps :
        LET k == ApplyKeys(env, tts, gemini_key, openai_key, elevenlabs_key)
        IN  /\ env' = k.env
            /\ reqs' = [reqs EXCEPT ![r] =
                   [@ EXCEPT !.pc = IF k.at = "none" THEN "generate" ELSE "done",
                             !.tts = tts,
                             !.gemini_key = gemini_key,
                             !.openai_key = openai_key,
                             !.elevenlabs_key = elevenlabs_key,
                             !.at = k.at,
                             !.after = k.env,
                             !.stamp = IF k.at = "none" THEN stamp ELSE ""]]
    /\ keyOrder' = Append(keyOrder, r)
    /\ UNCHANGED <<single, initEnv>>

\* the public paths that the branch of lines 316-417 for mode m writes or
\* renames to, under the stamp
PublicOutputs(m, stamp) ==
    LET b == BranchesEntered(m)
    IN  IF b = <<>> \/ b[1] = 2 THEN {}
        ELSE IF b[1] = 1 THEN {PublicTranscript(stamp)}
        ELSE IF b[1] = 3
        THEN IF m = "Transcript" THEN {PublicTranscript(stamp)}
             ELSE {PublicTranscript(stamp), PublicAudio(stamp)}
        ELSE {PromptFile(stamp)}

\* the public paths written before the first call of the library: line 320
WrittenBeforeCall(m, stamp) ==
    IF BranchesEntered(m) = <<1>> THEN {PublicTranscript(stamp)} ELSE {}

\* lines 312-417 of request r; o is the outcome of its first library call
RGenerate(r) ==
    /\ reqs[r].pc = "generate"
    /\ \E m \in MockModes, o \in GenOutcomes :
        reqs' = [reqs EXCEPT ![r] =
            [@ EXCEPT !.pc = "done",
                      !.mode = m,
                      !.at = IF m # "Yes" /\ o = "raises"
                             THEN "generate_podcast" ELSE "none",
                      !.seen = IF m = "Yes" THEN NoneV ELSE LibraryEnv(r),
                      !.seenAt = IF m = "Yes" THEN 0 ELSE Len(keyOrder),
                      !.outs = IF m # "Yes" /\ o = "raises"
                               THEN WrittenBeforeCall(m, reqs[r].stamp)
                               ELSE PublicOutputs(m, reqs[r].stamp)]]
    /\ UNCHANGED <<single, env, keyOrder, initEnv>>

InitMulti ==
    /\ pc = "idle"
    /\ env \in MultiEnvs
    /\ initEnv = env
    /\ is_mock_arg = PyNone /\ voices_arg = PyNone
    /\ request_id = "" /\ tts_model = ""
    /\ bound = BoundAtEntry
    /\ requestId = "" /\ file_group = ""
    /\ Fresh

NextMulti == \E r \in ReqIds : RKeys(r) \/ RGenerate(r)

SpecMulti == InitMulti /\ [][NextMulti]_vars

\* ------------------------------------------------- the voices parser alone

VoiceAlphabet == {"A", "b", " ", "\t", ","}
VoiceInputs ==
    {PyNone} \cup {PyStr(s) : s \in SeqsUpTo(VoiceAlphabet, MaxVoiceLen)}

\* a request that has reached line 162, for every voices string of the bound
InitVoices ==
    /\ pc = "parse"
    /\ env = [GEMINI_API_KEY |-> "env-key", OPENAI_API_KEY |-> None,
              ELEVENLABS_API_KEY |-> None]
    /\ is_mock_arg = PyNone /\ voices_arg \in VoiceInputs
    /\ request_id = "" /\ tts_model = "edge"
    /\ bound = BoundAtEntry \cup {"SLACK_BOT_TOKEN", "SLACK_CHANNEL_ID",
                                  "requestId", "file_group"}
    /\ file_group \in Stamps /\ requestId = file_group
    /\ initEnv = NoneV
    /\ Fresh

NextVoices == ParseInputs

SpecVoices == InitVoices /\ [][NextVoices]_vars

\* ------------------------------------------------ the is_mock parser alone

MaxMockLen == 3

UpperChar(c) ==
    IF \E i \in 1..Len(LowerS) : LowerS[i] = c
    THEN UpperS[CHOOSE i \in 1..Len(LowerS) : LowerS[i] = c]
    ELSE c

\* every way of writing the lower-case word w in upper and lower case
RECURSIVE Casings(_)
Casings(w) ==
    IF w = <<>> THEN {<<>>}
    ELSE {<<c>> \o r : c \in {Head(w), UpperChar(Head(w))}, r \in Casings(Tail(w))}

MockWords == {L_promptonly, L_transcript2voice, L_false, L_no, L_0,
              L_true, L_yes, L_1}
MockAlphabet == {"y", "E", "s", "n", "O", "1", " "}

\* the values the UI, the API or a caller in Python can pass for is_mock
MockInputs ==
    {PyNone, PyBool(TRUE), PyBool(FALSE)}
    \cup {PyStr(s) : s \in UNION {Casings(w) : w \in MockWords}}
    \cup {PyStr(s) : s \in SeqsUpTo(MockAlphabet, MaxMockLen)}

\* a request that has reached line 162, for every is_mock value above
InitMock ==
    /\ pc = "parse"
    /\ env = [GEMINI_API_KEY |-> "env-key", OPENAI_API_KEY |-> None,
              ELEVENLABS_API_KEY |-> None]
    /\ is_mock_arg \in MockInputs /\ voices_arg = PyNone
    /\ request_id = "" /\ tts_model = "edge"
    /\ bound = BoundAtEntry \cup {"SLACK_BOT_TOKEN", "SLACK_CHANNEL_ID",
                                  "requestId", "file_group"}
    /\ file_group \in Stamps /\ requestId = file_group
    /\ initEnv = NoneV
    /\ Fresh

NextMock == ParseInputs

SpecMock == InitMock /\ [][NextMock]_vars

\* ------------------------------------------------------------------ claims

Exited == pc \in {"done", "raised"}

\* the ERROR text of line 533 was handed to send_text_to_slack
ErrorReported ==
    \E i \in 1..Len(log) :
        log[i] = Event("send_text_to_slack",
                       ErrorText(requestId, mock_flag, failure.msg))

\* C1: process_inputs never raises past its own boundary: whatever fails
\* inside it, the exception is caught, reported to Slack as
\* [requestId][mockFlag][ERROR] <message>, and a plain string is returned.
C1_NeverRaises ==
    /\ pc # "raised"
    /\ (pc = "done" /\ failure # NoFailure) => (ret.t = "str" /\ ErrorReported)

TempOnDisk == {p \in disk : p.dir \in {PdfTempDir.dir, ImgTempDir.dir}}

\* C2: on every exit of process_inputs, by success or by failure, every
\* temporary file and temporary directory the request created is deleted.
C2_TempRemovedOnExit == Exited => TempOnDisk = {}

\* C3: with the openai backend and no OpenAI key from the UI or from the
\* environment, process_inputs fails before it writes any file and before
\* it makes any network call (Slack, callback, generation library).
C3_MissingKeyBeforeAnyIO ==
    (tts_model = "openai" /\ env.OPENAI_API_KEY = None)
        => /\ pc \in {"except", "raised"}
           /\ failure.at \in {"openai_key", "gemini_key"}
           /\ written = {} /\ disk = {CannedTranscript, CannedAudio}
           /\ log = <<>> /\ upload = NoUpload /\ genCalls = <<>>

\* C3 witness: the request failed on the missing OpenAI key and has exited
C3_Witness ==
    /\ pc = "raised" /\ failure.at = "openai_key"
    /\ tts_model = "openai" /\ env.OPENAI_API_KEY = None

\* C4: no failure of a Slack notification, at whichever step, lets an
\* exception reach process_inputs.
C4_SlackNeverFatal == failure.at # "send_files_to_slack"

\* C5: with a callback URL given, no failure of the callback notification
\* changes what process_inputs returns: it returns its success result.
C5_CallbackNeverChangesReturn ==
    (pc = "done" /\ Truthy(callback_url)) => ret = audio_file

\* C6: a byte upload answered with a status other than 200 leaves the
\* return value of process_inputs what a successful upload would have left:
\* the handler never returns the text of an exception of that upload.
C6_UploadStatusNotFatal ==
    pc = "done" =>
        ~(/\ failure.at = "send_files_to_slack"
          /\ failure.step = "upload"
          /\ failure.kind \in {"not_ok"} \cup HttpErrorKinds
          /\ ret = Str(failure.msg))

\* the request has gone through lines 312-420
PastGenerate ==
    \/ pc \in {"cleanup", "completed", "callback"}
    \/ ret.t \in {"path", "None"}
    \/ failure.at \in {"generate_podcast", "prompt_json", "callback_request"}
    \/ \E i \in 1..Len(log) : log[i] = Event("send_files_to_slack", "COMPLETED")

\* C7: the parser resolves every is_mock value to one of the five modes, and
\* a request that reaches generation enters exactly one mode branch.
C7_OneModeOneBranch ==
    /\ is_mock # "<unparsed>" => is_mock \in MockModes
    /\ PastGenerate => Len(branches) = 1

\* C7 witness: mode No, which two tests of the chain accept, entered one branch
C7_Witness ==
    /\ pc = "done" /\ is_mock = "No" /\ branches = <<3>> /\ Len(genCalls) = 2

\* C8: when is_mock resolves to Yes, process_inputs returns the canned audio
\* path and generate_podcast is never called.
C8_YesReturnsCanned ==
    (pc = "done" /\ is_mock = "Yes") => (ret = CannedAudio /\ genCalls = <<>>)

\* C9: in the transcript-only call of modes Transcript and No, longform is
\* false for a word_count of 5000 and below and true for 5001 and above.
C9_LongformAbove5000 ==
    is_mock \in {"Transcript", "No"} =>
        \A i \in 1..Len(genCalls) :
            genCalls[i].mode = "transcript_only" =>
                /\ genCalls[i].word_count <= 5000 => ~genCalls[i].longform
                /\ genCalls[i].word_count >= 5001 => genCalls[i].longform

\* C9 witness: transcript-only calls at the two sides of the threshold
C9_Witness ==
    /\ is_mock = "Transcript" /\ Len(genCalls) = 1
    /\ genCalls[1].mode = "transcript_only"
    /\ genCalls[1].word_count = 5000 /\ ~genCalls[1].longform

\* the voices string was split at line 182
VoicesParsed == voices # <<>> /\ ~Falsy(voices_arg)
Tokens == Split(voices_arg.s)

\* C10, as stated: with two non-empty tokens the two voices are the trimmed
\* tokens in order, with one token both voices are that trimmed token.
C10_TrimmedTokens ==
    VoicesParsed =>
        /\ (Len(Tokens) = 2 /\ Strip(Tokens[1]) # <<>> /\ Strip(Tokens[2]) # <<>>)
            => /\ question_voice = Strip(Tokens[1])
               /\ answer_voice = Strip(Tokens[2])
        /\ Len(Tokens) = 1
            => /\ question_voice = Strip(Tokens[1])
               /\ answer_voice = Strip(Tokens[1])

\* C10, amended: the voices are the trimmed tokens with every space inside
\* them removed as well.
C10_TrimmedTokensWithoutSpaces ==
    VoicesParsed =>
        /\ (Len(Tokens) = 2 /\ Strip(Tokens[1]) # <<>> /\ Strip(Tokens[2]) # <<>>)
            => /\ question_voice = RemoveSpaces(Strip(Tokens[1]))
               /\ answer_voice = RemoveSpaces(Strip(Tokens[2]))
        /\ Len(Tokens) = 1
            => /\ question_voice = RemoveSpaces(Strip(Tokens[1]))
               /\ answer_voice = RemoveSpaces(Strip(Tokens[1]))

\* C10 witness: two tokens, the first with a space inside it
C10_Witness ==
    /\ voices_arg = PyStr(<<"A", " ", "b", ",", "A">>)
    /\ question_voice = <<"A", "b">> /\ answer_voice = <<"A">>

\* ---- C11

\* s writes the lower-case word w in some mixture of upper and lower case
SameIgnoringCase(s, w) ==
    /\ Len(s) = Len(w)
    /\ \A i \in 1..Len(w) : s[i] = w[i] \/ s[i] = UpperChar(w[i])

Spells(v, words) ==
    v.t = "str" /\ \E w \in words : SameIgnoringCase(v.s, w)

\* the mode the spellings of the interface description give a non-empty value
ModeOfSpelling(v) ==
    IF Spells(v, {L_promptonly}) THEN "PromptOnly"
    ELSE IF Spells(v, {L_transcript2voice}) THEN "Transcript2Voice"
    ELSE IF Spells(v, {L_false, L_no, L_0}) THEN "No"
    ELSE IF Spells(v, {L_true, L_yes, L_1}) THEN "Yes"
    ELSE "Transcript"

IsMockParsed == is_mock # "<unparsed>"

\* C11: the parser is case-insensitive and total. A non-empty is_mock value
\* resolves to the mode that its spelling names whatever the case of its
\* letters, and to Transcript when it spells none of the recognised words; so
\* the mode depends on the letters only, and the value written in upper case
\* resolves to the same mode.
C11_CaseInsensitiveTotal ==
    (IsMockParsed /\ ~Falsy(is_mock_arg)) =>
        /\ is_mock \in MockModes
        /\ is_mock = ModeOfSpelling(is_mock_arg)
        /\ is_mock_arg.t = "str" =>
               is_mock = ParseIsMock(PyStr([i \in 1..Len(is_mock_arg.s) |->
                                               UpperChar(is_mock_arg.s[i])]))

\* a mixed-case spelling of "transcript2voice" has been resolved
C11_Witness ==
    /\ IsMockParsed
    /\ is_mock = "Transcript2Voice"
    /\ is_mock_arg.s # L_transcript2voice
    /\ is_mock_arg.s # <<"T","R","A","N","S","C","R","I","P","T","2","V","O","I","C","E">>

\* ---- C12

PromptPersisted == is_mock = "PromptOnly" /\ prompt_content # NoneV

\* the f-string of the instruction has x among its pieces
Embeds(instruction, x) == \E i \in 1..Len(instruction) : instruction[i] = x

\* C12: in PromptOnly mode the prompt written as JSON embeds the podcast name,
\* the podcast tagline and the user's custom instructions of the request, and
\* the request has no audio file and no transcript file.
C12_PromptEmbedsRequestText ==
    PromptPersisted =>
        /\ Embeds(prompt_content.instruction, podcast_name)
        /\ Embeds(prompt_content.instruction, podcast_tagline)
        /\ Embeds(prompt_content.instruction, user_instructions)
        /\ audio_file = NoneV /\ transcript_file = NoneV

\* ---- C13

\* C13: the input_params object of the callback payload echoes the inputs as
\* they were submitted: is_mock, voices and text_input have the values of the
\* call, not the ones the handler's normalisation left in the locals, and so
\* have the fields the handler never reassigns.
C13_EchoesOriginalInputs ==
    payload # NoPayload =>
        /\ payload.input_params.voices = voices_arg
        /\ payload.input_params.text_input = text_input_arg
        /\ payload.input_params.is_mock = is_mock_arg
        /\ payload.input_params.request_id = request_id
        /\ payload.input_params.podcast_name = podcast_name
        /\ payload.input_params.podcast_tagline = podcast_tagline
        /\ payload.input_params.user_instructions = user_instructions
        /\ payload.input_params.pdf_files = pdf_files
        /\ payload.input_params.image_files = image_files

\* ---- C14

\* a location under the public URL prefix
IsPublicUrl(v) ==
    v.dir \in {DATA_URL, DATA_URL \o "transcripts/", DATA_URL \o "audio/"}

\* C14: in every mode, an audio_file or transcript_file of the callback
\* payload that is not empty is a public URL: it begins with the public URL
\* prefix, whatever path the library returned.
C14_PayloadFilesArePublicUrls ==
    payload # NoPayload =>
        \A f \in {payload.audio_file, payload.transcript_file} :
            f = Str("") \/ IsPublicUrl(f)

\* ---- C15

\* C15: no two requests write or relocate an output to the same public
\* transcript, audio or prompt path.
C15_OutputPathsDisjoint ==
    \A r1 \in ReqIds, r2 \in ReqIds :
        r1 # r2 => reqs[r1].outs \cap reqs[r2].outs = {}

\* ---- C16

\* the positions in the events of the last send_files_to_slack call at which
\* a request of the given kind was sent
Sent(op) == {i \in 1..Len(upload.events) : upload.events[i].op = op}
SentFiles(op) == {upload.events[i].file : i \in Sent(op)}
UploadedFiles == {upload.files[i] : i \in 1..Len(upload.files)}
UploadFailed == upload.step \notin {"none", "write"}

\* C16: in a call of send_files_to_slack the three steps run in order and
\* stop at the first failure.  No bytes are sent before an upload URL was
\* obtained for every file that exists; the complete-upload request is sent
\* at most once, and only after the bytes of every file were accepted; after
\* the request that failed no request of the protocol follows; and every
\* failure is followed by at least one chat.postMessage.
C16_UploadStepsInOrder ==
    upload.wrote =>
        LET urls == Sent("files.getUploadURLExternal")
            puts == Sent("upload")
            done == Sent("files.completeUploadExternal")
            texts == Sent("chat.postMessage")
        IN  /\ \A i \in urls, j \in puts \cup done : i < j
            /\ \A j \in puts, k \in done : j < k
            /\ Cardinality(urls) = Cardinality(SentFiles("files.getUploadURLExternal"))
            /\ Cardinality(puts) = Cardinality(SentFiles("upload"))
            /\ puts # {} =>
                   /\ SentFiles("files.getUploadURLExternal") = UploadedFiles
                   /\ upload.step # "files.getUploadURLExternal"
            /\ Cardinality(done) <= 1
            /\ done # {} =>
                   /\ SentFiles("upload") = UploadedFiles
                   /\ upload.step \notin {"files.getUploadURLExternal", "upload"}
            /\ \A i \in urls \cup puts \cup done, t \in texts : i < t
            /\ UploadFailed =>
                   /\ texts # {}
                   /\ \A i \in urls \cup puts \cup done :
                          i <= Len(upload.events) - Cardinality(texts)
                   /\ upload.events[Len(upload.events) - Cardinality(texts)].op
                          = upload.step
            /\ ~UploadFailed => texts = {} /\ Cardinality(done) = 1

\* the upload of three files has failed at the bytes of one of them
C16_Witness ==
    /\ upload.wrote
    /\ Len(upload.files) = 3
    /\ upload.step = "upload"
    /\ Sent("chat.postMessage") # {}
    /\ Cardinality(Sent("upload")) = 2

\* ---- C17

StampedTranscript == Path(TRANSCRIPT_DIR, "transcript_" \o file_group \o ".txt")
StampedAudio == Path(AUDIO_DIR, "podcast_" \o file_group \o ".mp3")

TranscriptModeCallsOnce ==
    (is_mock = "Transcript" /\ PastGenerate) =>
        /\ Len(genCalls) = 1
        /\ genCalls[1].mode = "transcript_only"

Attempted(tag) ==
    {i \in 1..Len(log) : log[i] = Event("send_files_to_slack", tag)}
LibraryCalls == {i \in 1..Len(log) : log[i].op = "generate_podcast"}

\* C18: the BEGIN notification is attempted before any call of the library,
\* and a request that has left the handler has attempted its terminal
\* notification: the COMPLETED upload when it succeeded, the ERROR text when
\* it failed.
C18_BeginAndTerminalNotification ==
    /\ \A c \in LibraryCalls : \E b \in Attempted("BEGIN") : b < c
    /\ Exited =>
           IF failure = NoFailure
           THEN Attempted("COMPLETED") # {}
           ELSE ErrorReported

\* ---- C19

Providers == {"GEMINI_API_KEY", "OPENAI_API_KEY", "ELEVENLABS_API_KEY"}

\* the UI key request r gave for provider p
UIKeyFor(r, p) ==
    IF p = "GEMINI_API_KEY" THEN reqs[r].gemini_key
    ELSE IF p = "OPENAI_API_KEY" THEN reqs[r].openai_key
    ELSE reqs[r].elevenlabs_key

\* request r got as far as writing provider p's key: always for Gemini, for a
\* TTS provider when r selected it and its Gemini key was there
Selects(r, p) ==
    \/ p = "GEMINI_API_KEY"
    \/ p = "OPENAI_API_KEY" /\ reqs[r].tts = "openai" /\ reqs[r].at # "gemini_key"
    \/ p = "ELEVENLABS_API_KEY" /\ reqs[r].tts = "elevenlabs"
          /\ reqs[r].at # "gemini_key"

RanKeys(r) == \E i \in 1..Len(keyOrder) : keyOrder[i] = r
Pos(r) == CHOOSE i \in 1..Len(keyOrder) : keyOrder[i] = r
Latest(S) == CHOOSE i \in S : \A j \in S : j <= i

\* among the first n key-handling steps, those that wrote a UI key for p
Writers(p, n) ==
    {i \in 1..n : UIKeyFor(keyOrder[i], p) # "" /\ Selects(keyOrder[i], p)}

\* the value of provider p's variable after the first n key-handling steps
LatestWritten(p, n) ==
    IF Writers(p, n) = {} THEN initEnv[p]
    ELSE UIKeyFor(keyOrder[Latest(Writers(p, n))], p)

\* C19: the keys are state shared by the requests.  A call of the library
\* runs under the keys left by the key handling of all the requests that ran
\* it before the call, the last writer winning, whichever request makes the
\* call; so with two requests side by side the call of one can run under the
\* key of the other.
C19_LibraryRunsUnderLastWrittenKeys ==
    \A r \in ReqIds :
        reqs[r].seen # NoneV =>
            \A p \in Providers : reqs[r].seen[p] = LatestWritten(p, reqs[r].seenAt)

\* request r gave its own Gemini key, request o gave another one afterwards
\* and is still being handled, and r's library call ran under o's key
C19_Witness ==
    \E r \in ReqIds, o \in ReqIds :
        /\ r # o
        /\ RanKeys(r) /\ RanKeys(o) /\ Pos(r) < Pos(o)
        /\ reqs[r].gemini_key = KeyOf(r)
        /\ reqs[o].gemini_key = KeyOf(o)
        /\ reqs[o].pc = "generate"
        /\ reqs[r].pc = "done"
        /\ reqs[r].seen # NoneV
        /\ reqs[r].seen.GEMINI_API_KEY = KeyOf(o)

\* ---- C20

\* among the first n key-handling steps, those whose request gave a UI key
\* for p
Suppliers(p, n) == {i \in 1..n : UIKeyFor(keyOrder[i], p) # ""}

\* the check of provider p's key that a request can fail
CheckOf(p) ==
    IF p = "GEMINI_API_KEY" THEN "gemini_key"
    ELSE IF p = "OPENAI_API_KEY" THEN "openai_key"
    ELSE "elevenlabs_key"

CallbackPosts == {i \in 1..Len(log) : log[i].op = "callback"}
ErrorTexts == {i \in 1..Len(log) : log[i].op = "send_text_to_slack"}

\* C21: the callback POST is attempted at most once per request, only when
\* a callback URL was given, and only after the library calls and the
\* COMPLETED upload of the request, with its temporary files removed and no
\* exception caught; a request that fails has sent no callback.
C21_CallbackOnceAfterCompleted ==
    /\ Cardinality(CallbackPosts) <= 1
    /\ \A c \in CallbackPosts :
           /\ Truthy(callback_url)
           /\ branches # <<>>
           /\ \A g \in LibraryCalls : g < c
           /\ \E k \in Attempted("COMPLETED") : k < c
           /\ TempOnDisk = {}
           /\ ErrorTexts = {}
    /\ (failure # NoFailure \/ pc \in {"except", "raised"}) => CallbackPosts = {}

\* the POST of a request in mode No was attempted and failed, and the request
\* returned its audio all the same
C21_Witness ==
    /\ pc = "done"
    /\ is_mock = "No"
    /\ failure = NoFailure
    /\ \E c \in CallbackPosts : log[c] = Event("callback", "exception")
    /\ ret = audio_file

====
